---- MODULE Spec2Model ----
(***************************************************************************)
(* The Hierarchical Abstraction Graph (class HAG) of src/1_HAG.py,         *)
(* src/2_HAG.py and src/3_HAG.py.                                          *)
(*                                                                         *)
(* Python sets are objects: a HAG keeps a reference to the set passed to   *)
(* add_hyper_vertex, and 1_HAG.py hands out its own _vertices set through  *)
(* the `vertices` property.  Set objects therefore live in `heap`, and a   *)
(* HAG stores object names where the code stores references.               *)
(***************************************************************************)
EXTENDS Integers, Sequences, FiniteSets, TLC

\* ------------------------------------------------------------------ bounds
\* calls made in one behaviour of Spec, of SpecCollapse, of SpecAlg (its
\* combining call apart) and of SpecShare
MaxOps == 3
MaxCollapseOps == 4
MaxAlgOps == 3
MaxShareOps == 3
\* set objects the caller creates and keeps a reference to
MaxSets == 2
\* edges added before a search in SpecPath, and in SpecReach
MaxEdges == 3
MaxReachEdges == 2

\* ------------------------------------------------------------------ inputs
Variants == {1, 2, 3} \* 1_HAG.py, 2_HAG.py, 3_HAG.py
Ids      == {"a", "b", "H"}
SmallIds == {"a", "H"}
AllIds   == Ids \cup SmallIds
Labels   == {"p", "q"}
Cons     == {"c1", "c2"}
HagNames == {"A", "B", "R"}
SetNames == <<"s1", "s2", "s3">>

VARIABLES
  variant,  \* which source file the class comes from
  live,     \* the HAG instances constructed so far
  hag,      \* per instance: _edges, _hyper_vertices (name -> set object), _constraints
  heap,     \* set object -> its elements; each instance's _vertices is one object
  nsets,    \* caller-made set objects allocated so far
  nops,     \* API calls made so far
  last,     \* the last call: its name, receiver, arguments and the state before it
  dropped,  \* per instance: the identifiers a collapse took out of _vertices and
            \* that no call has put back since
  pc,       \* path_exists: "idle", "run" or "done"
  query,    \* path_exists: the top-level call's receiver, start and end
  stack,    \* path_exists: the active invocations, innermost last
  visited,  \* path_exists: the shared visited set
  ret,      \* path_exists: value being returned by the invocation that just ended
  calls,    \* path_exists: invocations made with each vertex as `start`
  nqueries, \* top-level searches made so far
  before    \* the search that ended before the last collapse: its result, and its
            \* arguments as the collapse renames them

vars == <<variant, live, hag, heap, nsets, nops, last, dropped, pc, query, stack, visited,
          ret, calls, nqueries, before>>
dfsVars == <<pc, query, stack, visited, ret, calls, nqueries, before>>

\* ------------------------------------------------------------- the objects
VObj(g) == CASE g = "A" -> "A._vertices" [] g = "B" -> "B._vertices" [] OTHER -> "R._vertices"
VertexObjs == {VObj(g) : g \in HagNames}
CallerObjs == {SetNames[i] : i \in 1..Len(SetNames)}
Allocated  == {SetNames[i] : i \in 1..nsets}
ObjIds     == VertexObjs \cup CallerObjs

NoHyper == [n \in {} |-> "s1"]
EmptyHAG == [edges |-> {}, hyper |-> NoHyper, constraints |-> <<>>]

\* 2_HAG.py and 3_HAG.py register edge endpoints and hyper-vertex names as vertices
AutoRegister == variant \in {2, 3}
\* only 1_HAG.py has the properties and union / intersection / subtract
HasAlgebra == variant = 1

\* the `vertices` property (the set's elements)
vertices(g) == heap[VObj(g)]
edges(g) == hag[g].edges
\* the `hyper_vertices` property with every member set read out
hyper_vertices(g) == [n \in DOMAIN hag[g].hyper |-> heap[hag[g].hyper[n]]]
constraints(g) == hag[g].constraints

\* everything __str__ shows of an instance
View(g) == [vertices |-> vertices(g), edges |-> edges(g),
            hyper |-> hyper_vertices(g), constraints |-> constraints(g)]
Snapshot == [g \in HagNames |-> View(g)]

\* Bookkeeping of a call, stated after the call's own effect on heap.
Called(op, g, name, other) ==
  /\ last' = [op |-> op, g |-> g, name |-> name, other |-> other, pre |-> Snapshot]
  /\ dropped' = [h \in HagNames |->
                  (dropped[h] \cup (heap[VObj(h)] \ heap'[VObj(h)]))
                     \ (heap'[VObj(h)] \ heap[VObj(h)])]

\* --------------------------------------------------------------- __init__
TypeOK ==
  /\ variant \in Variants
  /\ live \subseteq HagNames
  /\ heap \in [ObjIds -> SUBSET AllIds]
  /\ nsets \in 0..Len(SetNames)
  /\ \A g \in HagNames :
       /\ hag[g].edges \subseteq AllIds \X AllIds \X Labels
       /\ DOMAIN hag[g].hyper \subseteq AllIds
       /\ \A n \in DOMAIN hag[g].hyper : hag[g].hyper[n] \in ObjIds

InitDfs ==
  /\ pc = "idle"
  /\ query = [g |-> "A", start |-> "a", end |-> "a"]
  /\ stack = <<>>
  /\ visited = {}
  /\ ret = "none"
  /\ calls = [v \in AllIds |-> 0]
  /\ nqueries = 0
  /\ before = [valid |-> FALSE, name |-> "a", a |-> "a", b |-> "a",
               start |-> "a", end |-> "a", res |-> FALSE, direct |-> FALSE]

InitHeap ==
  /\ hag = [g \in HagNames |-> EmptyHAG]
  /\ heap = [o \in ObjIds |-> {}]
  /\ nsets = 0
  /\ nops = 0
  /\ dropped = [g \in HagNames |-> {}]
  /\ last = [op |-> "init", g |-> "", name |-> "", other |-> "",
             pre |-> [g \in HagNames |-> [vertices |-> {}, edges |-> {},
                                          hyper |-> NoHyper, constraints |-> <<>>]]]

Init ==
  /\ variant \in Variants
  /\ live = {"A"}
  /\ InitHeap
  /\ InitDfs

\* ------------------------------------------------------------ add methods
add_vertex(g, vertex) ==
  /\ heap' = [heap EXCEPT ![VObj(g)] = @ \cup {vertex}]
  /\ UNCHANGED <<hag, nsets>>
  /\ Called("add_vertex", g, vertex, "")

add_edge(g, source, target, label) ==
  /\ hag' = [hag EXCEPT ![g].edges = @ \cup {<<source, target, label>>}]
  /\ heap' = IF AutoRegister
               THEN [heap EXCEPT ![VObj(g)] = @ \cup {source, target}]
               ELSE heap
  /\ UNCHANGED nsets
  /\ Called("add_edge", g, source, target)

\* hyper' after self._hyper_vertices[name] = members
SetItem(hyper, name, members) ==
  [n \in DOMAIN hyper \cup {name} |-> IF n = name THEN members ELSE hyper[n]]

\* `members` is the set object the caller passes
add_hyper_vertex(g, name, members) ==
  /\ hag' = [hag EXCEPT ![g].hyper = SetItem(@, name, members)]
  /\ heap' = IF AutoRegister
               THEN [heap EXCEPT ![VObj(g)] = @ \cup {name}]
               ELSE heap
  /\ Called("add_hyper_vertex", g, name, members)

add_constraint(g, constraint) ==
  /\ hag' = [hag EXCEPT ![g].constraints = Append(@, constraint)]
  /\ UNCHANGED <<heap, nsets>>
  /\ Called("add_constraint", g, constraint, "")

\* ---------------------------------------------------- collapse_hyper_vertex
\* new_v1 = name if v1 in members else v1
Rewrite(v, name, members) == IF v \in members THEN name ELSE v

\* mutant: only the source of an edge is renamed
NewEdges_sourceOnly(es, name, members) ==
  {<<Rewrite(e[1], name, members), e[2], e[3]>> : e \in es}

\* mutant: only the target of an edge is renamed
NewEdges_targetOnly(es, name, members) ==
  {<<e[1], Rewrite(e[2], name, members), e[3]>> : e \in es}

NewEdges(es, name, members) ==
  {<<Rewrite(e[1], name, members), Rewrite(e[2], name, members), e[3]>> : e \in es}

\* self._vertices -= members, on the heap: the object is changed in place
DifferenceUpdate(h, obj, members) == [h EXCEPT ![obj] = @ \ members]

collapse_hyper_vertex(g, name) ==
  /\ UNCHANGED nsets
  /\ IF name \notin DOMAIN hag[g].hyper
       THEN UNCHANGED <<hag, heap>>
       ELSE LET members == heap[hag[g].hyper[name]]
                removed == DifferenceUpdate(heap, VObj(g), members)
            IN  /\ hag' = [hag EXCEPT ![g].edges = NewEdges(@, name, members)]
                /\ heap' = [removed EXCEPT ![VObj(g)] = @ \cup {name}]
  /\ Called("collapse_hyper_vertex", g, name, "")

\* ------------------------------------------------------------- the caller
\* The caller builds a set and passes it to add_hyper_vertex, keeping its reference.
NewSetAndAdd(g, name, elems) ==
  /\ nsets < MaxSets
  /\ nsets' = nsets + 1
  /\ LET obj == SetNames[nsets + 1]
     IN  /\ hag' = [hag EXCEPT ![g].hyper = SetItem(@, name, obj)]
         /\ heap' = IF AutoRegister
                      THEN [heap EXCEPT ![obj] = elems, ![VObj(g)] = @ \cup {name}]
                      ELSE [heap EXCEPT ![obj] = elems]
         /\ Called("add_hyper_vertex", g, name, obj)

\* The caller changes a set object it made, after having passed it in.
CallerAdd(obj, x) ==
  /\ obj \in Allocated
  /\ x \notin heap[obj]
  /\ heap' = [heap EXCEPT ![obj] = @ \cup {x}]
  /\ UNCHANGED <<hag, nsets>>
  /\ Called("caller_mutates", "", obj, x)

CallerDiscard(obj, x) ==
  /\ obj \in Allocated
  /\ x \in heap[obj]
  /\ heap' = [heap EXCEPT ![obj] = @ \ {x}]
  /\ UNCHANGED <<hag, nsets>>
  /\ Called("caller_mutates", "", obj, x)

\* The set objects a caller can pass as `members`: the ones it made, and (1_HAG.py's
\* `vertices` property) an instance's own vertex set.
Passable == Allocated \cup {VObj(g) : g \in IF HasAlgebra THEN live ELSE {}}

\* ------------------------------------------------------- the API's steps
\* A call on one of the instances G with identifiers drawn from I.
AddVertexOn(G, I) == \E g \in G, v \in I : add_vertex(g, v)
AddEdgeOn(G, I) == \E g \in G, s \in I, t \in I, l \in Labels : add_edge(g, s, t, l)
NewHyperOn(G, I) == \E g \in G, n \in I, m \in SUBSET I : NewSetAndAdd(g, n, m)
SameHyperOn(G, I) ==
  \E g \in G, n \in I, o \in Passable : add_hyper_vertex(g, n, o) /\ UNCHANGED nsets
AddConstraintOn(G) == \E g \in G, c \in Cons : add_constraint(g, c)
CollapseOn(G, I) == \E g \in G, n \in I : collapse_hyper_vertex(g, n)
CallerAddTo(I) == \E o \in CallerObjs, x \in I : CallerAdd(o, x)
CallerDiscardFrom(I) == \E o \in CallerObjs, x \in I : CallerDiscard(o, x)

Frame == UNCHANGED <<variant, live>> /\ UNCHANGED dfsVars
Budget(max) == nops < max /\ nops' = nops + 1

\* ------------------------------------------------------------------- Spec
\* One instance, every method but path_exists, and the caller's own sets.
Next ==
  \/ Budget(MaxOps) /\ Frame /\ AddVertexOn({"A"}, Ids)
  \/ Budget(MaxOps) /\ Frame /\ AddEdgeOn({"A"}, Ids)
  \/ Budget(MaxOps) /\ Frame /\ NewHyperOn({"A"}, Ids)
  \/ Budget(MaxOps) /\ Frame /\ SameHyperOn({"A"}, Ids)
  \/ Budget(MaxOps) /\ Frame /\ AddConstraintOn({"A"})
  \/ Budget(MaxOps) /\ Frame /\ CollapseOn({"A"}, Ids)
  \/ Budget(MaxOps) /\ Frame /\ CallerAddTo(Ids)
  \/ Budget(MaxOps) /\ Frame /\ CallerDiscardFrom(Ids)

Spec == Init /\ [][Next]_vars

\* ----------------------------------------------------------- SpecCollapse
\* One instance over two identifiers: graphs with hyper-vertices and their
\* collapses.
NextCollapse ==
  \/ Budget(MaxCollapseOps) /\ Frame /\ AddVertexOn({"A"}, SmallIds)
  \/ Budget(MaxCollapseOps) /\ Frame /\ AddEdgeOn({"A"}, SmallIds)
  \/ Budget(MaxCollapseOps) /\ Frame /\ NewHyperOn({"A"}, SmallIds)
  \/ Budget(MaxCollapseOps) /\ Frame /\ SameHyperOn({"A"}, SmallIds)
  \/ Budget(MaxCollapseOps) /\ Frame /\ CollapseOn({"A"}, SmallIds)

SpecCollapse == Init /\ [][NextCollapse]_vars

\* ------------------------------------------- union, intersection, subtract
\* {**self._hyper_vertices, **other._hyper_vertices}: the member sets are shared
MergeHyper(mine, theirs) ==
  [n \in DOMAIN mine \cup DOMAIN theirs |->
     IF n \in DOMAIN theirs THEN theirs[n] ELSE mine[n]]

\* mutant: the member sets are not compared
SameMembers_unchecked(self, other, k) == TRUE

\* the values `v == other._hyper_vertices[k]` compares are the sets' elements
SameMembers(self, other, k) == heap[hag[self].hyper[k]] = heap[hag[other].hyper[k]]

KeptByIntersection(self, other) ==
  {k \in DOMAIN hag[self].hyper :
     k \in DOMAIN hag[other].hyper /\ SameMembers(self, other, k)}

KeptBySubtract(self, other) ==
  {k \in DOMAIN hag[self].hyper : k \notin DOMAIN hag[other].hyper}

Elements(seq) == {seq[i] : i \in 1..Len(seq)}
\* list(set(...)): the elements once each, in an order the set chooses
Orders(S) ==
  {f \in [1..Cardinality(S) -> S] : \A i, j \in 1..Cardinality(S) : f[i] = f[j] => i = j}

\* mutant: the other operand's vertices are left out
UnionVertices_selfOnly(self, other) == vertices(self)

UnionVertices(self, other) == vertices(self) \cup vertices(other)

\* result = HAG() with its four fields assigned
Construct(op, self, other, vs, es, hyper, cs) ==
  /\ HasAlgebra
  /\ "R" \notin live
  /\ live' = live \cup {"R"}
  /\ hag' = [hag EXCEPT !["R"] = [edges |-> es, hyper |-> hyper, constraints |-> cs]]
  /\ heap' = [heap EXCEPT ![VObj("R")] = vs]
  /\ UNCHANGED nsets
  /\ Called(op, self, "", other)

union(self, other) ==
  \E cs \in Orders(Elements(constraints(self) \o constraints(other))) :
    Construct("union", self, other,
              UnionVertices(self, other),
              edges(self) \cup edges(other),
              MergeHyper(hag[self].hyper, hag[other].hyper),
              cs)

intersection(self, other) ==
  \E cs \in Orders(Elements(constraints(self)) \cap Elements(constraints(other))) :
    Construct("intersection", self, other,
              vertices(self) \cap vertices(other),
              edges(self) \cap edges(other),
              [k \in KeptByIntersection(self, other) |-> hag[self].hyper[k]],
              cs)

subtract(self, other) ==
  LET Kept(c) == c \notin Elements(constraints(other)) IN
  Construct("subtract", self, other,
            vertices(self) \ vertices(other),
            edges(self) \ edges(other),
            [k \in KeptBySubtract(self, other) |-> hag[self].hyper[k]],
            SelectSeq(constraints(self), Kept))

\* ---------------------------------------------------------------- SpecAlg
\* 1_HAG.py: two instances are built, combined into a third, and used further.
InitAlg ==
  /\ variant = 1
  /\ live = {"A", "B"}
  /\ InitHeap
  /\ InitDfs

AlgFrame == UNCHANGED variant /\ UNCHANGED dfsVars
Unmade == "R" \notin live

NextAlg ==
  \/ Unmade /\ Budget(MaxAlgOps) /\ Frame /\ AddVertexOn(live, SmallIds)
  \/ Unmade /\ Budget(MaxAlgOps) /\ Frame /\ AddEdgeOn(live, SmallIds)
  \/ Unmade /\ Budget(MaxAlgOps) /\ Frame /\ NewHyperOn(live, SmallIds)
  \/ UNCHANGED nops /\ AlgFrame /\ union("A", "B")
  \/ UNCHANGED nops /\ AlgFrame /\ intersection("A", "B")
  \/ UNCHANGED nops /\ AlgFrame /\ subtract("A", "B")

SpecAlg == InitAlg /\ [][NextAlg]_vars

\* -------------------------------------------------------------- SpecShare
\* 1_HAG.py: as SpecAlg, with every method, also on the combined instance.
NextShare ==
  \/ Budget(MaxShareOps) /\ Frame /\ AddVertexOn(live, SmallIds)
  \/ Budget(MaxShareOps) /\ Frame /\ AddEdgeOn(live, SmallIds)
  \/ Budget(MaxShareOps) /\ Frame /\ NewHyperOn(live, SmallIds)
  \/ Budget(MaxShareOps) /\ Frame /\ SameHyperOn(live, SmallIds)
  \/ Budget(MaxShareOps) /\ Frame /\ AddConstraintOn(live)
  \/ Budget(MaxShareOps) /\ Frame /\ CollapseOn(live, SmallIds)
  \/ Budget(MaxShareOps) /\ AlgFrame /\ union("A", "B")
  \/ Budget(MaxShareOps) /\ AlgFrame /\ intersection("A", "B")
  \/ Budget(MaxShareOps) /\ AlgFrame /\ subtract("A", "B")

SpecShare == InitAlg /\ [][NextShare]_vars

\* ------------------------------------------------------------ path_exists
\* get_neighbors(vertex): one list entry per edge leaving `vertex`, so the
\* entries still to be iterated are kept as the edges themselves.
\* mutant: the edges into `vertex` instead of the edges out of it
get_neighbors_into(g, vertex) == {e \in edges(g) : e[2] = vertex}

get_neighbors(g, vertex) == {e \in edges(g) : e[1] = vertex}

\* visited.add(start)
Mark(vis, start) == vis \cup {start}

\* mutant: the visited set is not consulted
Unvisited_always(neighbor, vis) == TRUE

\* `neighbor not in visited`
Unvisited(neighbor, vis) == neighbor \notin vis

\* One invocation self.path_exists(start, end, visited) up to its for loop, made
\* with the visited set `vis` and below the invocations in `stk`.
Invoke(g, start, end, vis, stk, count) ==
  /\ calls' = [count EXCEPT ![start] = @ + 1]
  /\ IF start = end
       THEN /\ ret' = "true"
            /\ visited' = vis
            /\ stack' = stk
       ELSE /\ ret' = "none"
            /\ visited' = Mark(vis, start)
            /\ stack' = Append(stk, [start |-> start,
                                     todo |-> get_neighbors(g, start)])

Top == stack[Len(stack)]
Pop == SubSeq(stack, 1, Len(stack) - 1)

\* the top-level call: visited is None, so a new set is made
Call(g, start, end) ==
  /\ pc = "idle"
  /\ pc' = "run"
  /\ query' = [g |-> g, start |-> start, end |-> end]
  /\ nqueries' = nqueries + 1
  /\ Invoke(g, start, end, {}, <<>>, [v \in AllIds |-> 0])
  /\ UNCHANGED <<variant, live, hag, heap, nsets, nops, before>>
  /\ Called("path_exists", g, start, end)

\* the for loop takes its next neighbor, in whatever order the set gives them
Iterate ==
  /\ pc = "run" /\ ret = "none" /\ stack # <<>>
  /\ \E e \in Top.todo :
       LET rest == [stack EXCEPT ![Len(stack)].todo = @ \ {e}]
       IN  IF Unvisited(e[2], visited)
             THEN Invoke(query.g, e[2], query.end, visited, rest, calls)
             ELSE /\ stack' = rest
                  /\ UNCHANGED <<visited, ret, calls>>
  /\ UNCHANGED <<pc, query, nqueries>>
  /\ UNCHANGED <<variant, live, hag, heap, nsets, nops, last, dropped, before>>

\* the for loop is over: return False
Exhausted ==
  /\ pc = "run" /\ ret = "none" /\ stack # <<>>
  /\ Top.todo = {}
  /\ stack' = Pop
  /\ ret' = "false"
  /\ UNCHANGED <<pc, query, nqueries, visited, calls>>
  /\ UNCHANGED <<variant, live, hag, heap, nsets, nops, last, dropped, before>>

\* a recursive call came back True: return True
ReturnTrue ==
  /\ pc = "run" /\ ret = "true" /\ stack # <<>>
  /\ stack' = Pop
  /\ UNCHANGED <<pc, query, nqueries, visited, ret, calls>>
  /\ UNCHANGED <<variant, live, hag, heap, nsets, nops, last, dropped, before>>

\* a recursive call came back False: go on with the loop
GoOn ==
  /\ pc = "run" /\ ret = "false" /\ stack # <<>>
  /\ ret' = "none"
  /\ UNCHANGED <<pc, query, nqueries, visited, stack, calls>>
  /\ UNCHANGED <<variant, live, hag, heap, nsets, nops, last, dropped, before>>

\* the top-level call returns
Finish ==
  /\ pc = "run" /\ ret # "none" /\ stack = <<>>
  /\ pc' = "done"
  /\ UNCHANGED <<query, nqueries, visited, stack, ret, calls>>
  /\ UNCHANGED <<variant, live, hag, heap, nsets, nops, last, dropped, before>>

\* the steps of a running search
Dfs == Iterate \/ Exhausted \/ ReturnTrue \/ GoOn \/ Finish

Result == ret = "true"

\* --------------------------------------------------------------- SpecPath
\* A graph is built, then one search runs on it.
PathAddEdge ==
  /\ pc = "idle"
  /\ Cardinality(edges("A")) < MaxEdges
  /\ \E s \in Ids, t \in Ids, l \in Labels : add_edge("A", s, t, l)
  /\ UNCHANGED <<variant, live, nops>>
  /\ UNCHANGED dfsVars

PathCall == \E s \in Ids, e \in Ids : Call("A", s, e)

NextPath ==
  \/ PathAddEdge
  \/ PathCall
  \/ Iterate
  \/ Exhausted
  \/ ReturnTrue
  \/ GoOn
  \/ Finish

SpecPath == Init /\ [][NextPath]_vars /\ WF_vars(Dfs)

\* -------------------------------------------------------------- SpecReach
\* A graph with one hyper-vertex is built and searched; the hyper-vertex is
\* collapsed; the search is made again with its arguments renamed.
ReachLabels == {"p"}

ReachAddEdge ==
  /\ pc = "idle" /\ nqueries = 0
  /\ Cardinality(edges("A")) < MaxReachEdges
  /\ \E s \in Ids, t \in Ids, l \in ReachLabels : add_edge("A", s, t, l)
  /\ UNCHANGED <<variant, live, nops>>
  /\ UNCHANGED dfsVars

ReachDefine ==
  /\ pc = "idle" /\ nqueries = 0
  /\ DOMAIN hag["A"].hyper = {}
  /\ \E n \in Ids, m \in SUBSET Ids : NewSetAndAdd("A", n, m)
  /\ UNCHANGED <<variant, live, nops>>
  /\ UNCHANGED dfsVars

ReachCall ==
  /\ nqueries = 0
  /\ DOMAIN hag["A"].hyper # {}
  /\ \E s \in Ids, e \in Ids : Call("A", s, e)

ReachCollapse ==
  /\ pc = "done" /\ nqueries = 1
  /\ \E n \in Ids :
       /\ collapse_hyper_vertex("A", n)
       /\ LET defined == n \in DOMAIN hag["A"].hyper
              M == IF defined THEN heap[hag["A"].hyper[n]] ELSE {}
          IN  before' = [valid |-> defined, name |-> n,
                         a |-> query.start, b |-> query.end,
                         start |-> IF query.start \in M THEN n ELSE query.start,
                         end |-> IF query.end \in M THEN n ELSE query.end,
                         res |-> Result,
                         direct |-> query.end \in {e[2] : e \in
                                      {x \in edges("A") : x[1] = query.start}}]
  /\ pc' = "idle"
  /\ UNCHANGED <<variant, live, nops, query, stack, visited, ret, calls, nqueries>>

ReachCallAgain ==
  /\ nqueries = 1
  /\ before.valid
  /\ Call("A", before.start, before.end)

NextReach ==
  \/ ReachAddEdge
  \/ ReachDefine
  \/ ReachCall
  \/ ReachCollapse
  \/ ReachCallAgain
  \/ Iterate
  \/ Exhausted
  \/ ReturnTrue
  \/ GoOn
  \/ Finish

SpecReach == Init /\ [][NextReach]_vars /\ WF_vars(Dfs)

\* ------------------------------------------------ reachability, as a relation
\* The vertices some directed sequence of zero or more edges of E leads to from S.
RECURSIVE ReachFrom(_, _)
ReachFrom(E, S) ==
  LET T == S \cup {e[2] : e \in {x \in E : x[1] \in S}}
  IN  IF T = S THEN S ELSE ReachFrom(E, T)

Successors(E, v) == {e[2] : e \in {x \in E : x[1] = v}}

\* a directed sequence of one or more edges of E leads from s to t
EdgePath(E, s, t) == t \in ReachFrom(E, Successors(E, s))

RECURSIVE Total(_, _)
Total(f, S) ==
  IF S = {} THEN 0
  ELSE LET x == CHOOSE y \in S : TRUE IN f[x] + Total(f, S \ {x})

\* C1: a finished top-level path_exists(start, end) returned True exactly when
\* start = end or a directed sequence of edges (labels ignored) leads from start
\* to end, on every edge set and for identifiers in or out of the vertex set.
C1_PathExistsIsReachability ==
  pc = "done" =>
    (Result <=> (query.start = query.end
                   \/ EdgePath(edges(query.g), query.start, query.end)))

\* a search that went round a cycle and found its end two or more edges away
C1_Witness ==
  /\ pc = "done" /\ Result
  /\ query.start # query.end
  /\ query.end \notin Successors(edges(query.g), query.start)
  /\ EdgePath(edges(query.g), query.start, query.start)
  /\ query.end \notin vertices(query.g)

\* C8: during a top-level path_exists no vertex is `start` of two invocations,
\* the invocations number at most the vertices reachable from the start, and
\* the call terminates.
C8_AtMostOnce ==
  /\ \A v \in AllIds : calls[v] <= 1
  /\ Total(calls, AllIds)
       <= Cardinality(ReachFrom(edges(query.g), {query.start}))

C8_VisitedOnceAndTerminates ==
  /\ [](pc # "idle" => C8_AtMostOnce)
  /\ (pc = "run") ~> (pc = "done")

\* a failed search over a cycle with a doubled edge, every vertex on it entered once
C8_Witness ==
  /\ pc = "done" /\ ~Result
  /\ EdgePath(edges(query.g), query.start, query.start)
  /\ \E e \in edges(query.g), f \in edges(query.g) :
       e[1] = query.start /\ f[1] = e[1] /\ f[2] = e[2] /\ f[3] # e[3] /\ e[2] # e[1]
  /\ \A v \in ReachFrom(edges(query.g), {query.start}) : calls[v] = 1

\* C9: when path_exists(a, b) was true before collapse_hyper_vertex(name) of a
\* defined hyper-vertex, path_exists(f(a), f(b)) is true after it, f renaming
\* the members to name.
C9_CollapsePreservesReachability ==
  (/\ pc = "done" /\ nqueries = 2
   /\ before.valid /\ before.res
   /\ query.start = before.start /\ query.end = before.end)
    => Result

\* the search from a member to a vertex outside, repeated from the hyper-vertex
C9_Witness ==
  /\ pc = "done" /\ nqueries = 2 /\ Result
  /\ before.valid /\ before.res
  /\ before.a # before.start /\ query.start = before.name
  /\ before.b = before.end /\ query.end # query.start
  /\ ~before.direct

\* ------------------------------------------------- collapse_hyper_vertex
IsCollapse == last.op = "collapse_hyper_vertex" /\ last.g \in live
\* the state the last call started from, and what it was called on
Pre == last.pre[last.g]
WasDefined == last.name \in DOMAIN Pre.hyper

\* the edge set the claim describes: every endpoint in M renamed, labels kept
Renamed(E, name, M) ==
  {<<IF e[1] \in M THEN name ELSE e[1], IF e[2] \in M THEN name ELSE e[2], e[3]>> :
     e \in E}

\* C2 as stated: after collapse_hyper_vertex(name) of a defined hyper-vertex with
\* member set M the edge set is the old one with members renamed to name, every
\* vertex in M is out of the vertex set, and name is in it.
C2_AsStated ==
  (IsCollapse /\ WasDefined) =>
    LET M == Pre.hyper[last.name]
    IN  /\ edges(last.g) = Renamed(Pre.edges, last.name, M)
        /\ \A v \in M : v \notin vertices(last.g)
        /\ last.name \in vertices(last.g)

\* C2, amended: as C2_AsStated, with every vertex in M other than name itself
\* out of the vertex set, and every other vertex left as it was.
C2_CollapseRewritesEdges ==
  (IsCollapse /\ WasDefined) =>
    LET M == Pre.hyper[last.name]
    IN  /\ edges(last.g) = Renamed(Pre.edges, last.name, M)
        /\ \A v \in M \ {last.name} : v \notin vertices(last.g)
        /\ last.name \in vertices(last.g)
        /\ vertices(last.g) = (Pre.vertices \ M) \cup {last.name}

\* a collapse that merged two edges into one and kept an edge's label
C2_Witness ==
  /\ IsCollapse /\ WasDefined
  /\ Cardinality(edges(last.g)) < Cardinality(Pre.edges)
  /\ Pre.hyper[last.name] \cap Pre.vertices # {}
  /\ last.name \notin Pre.hyper[last.name]
  /\ \E e \in edges(last.g) : e \notin Pre.edges

\* C3: collapse_hyper_vertex(name) leaves the hyper-vertex mapping (every name
\* and its member set) and the constraints as they were, and leaves vertices
\* and edges alone too when name is not a defined hyper-vertex.
C3_CollapseFrame ==
  IsCollapse =>
    /\ hyper_vertices(last.g) = Pre.hyper
    /\ constraints(last.g) = Pre.constraints
    /\ ~WasDefined => (vertices(last.g) = Pre.vertices /\ edges(last.g) = Pre.edges)

\* ------------------------------------------------------------ invariants
NoDanglingEdge(V, E) == \A e \in E : e[1] \in V /\ e[2] \in V

\* C4: in every state reached from the empty graph, both endpoints of every
\* edge are vertices, and so is every hyper-vertex name that no collapse has
\* removed as a member.
C4_NoDanglingReference ==
  \A g \in live :
    /\ NoDanglingEdge(vertices(g), edges(g))
    /\ \A k \in DOMAIN hag[g].hyper : k \in vertices(g) \/ k \in dropped[g]

\* C5: when the caller changes a set it passed to add_hyper_vertex, no stored
\* member set changes.
C5_MembersAreCopied ==
  last.op = "caller_mutates" =>
    \A g \in live : hyper_vertices(g) = last.pre[g].hyper

\* ------------------------------------------- union, intersection, subtract
IsAlgebra == last.op \in {"union", "intersection", "subtract"}
IsMethod ==
  last.op \in {"add_vertex", "add_edge", "add_hyper_vertex", "add_constraint",
               "collapse_hyper_vertex"}

\* C6: union, intersection and subtract leave both operands as they were, and
\* afterwards no method called on the result changes an operand and no method
\* called on an operand changes the result.
C6_ResultIsIndependent ==
  /\ IsAlgebra => (View("A") = last.pre["A"] /\ View("B") = last.pre["B"])
  /\ (IsMethod /\ "R" \in live /\ last.g = "R") =>
       (View("A") = last.pre["A"] /\ View("B") = last.pre["B"])
  /\ (IsMethod /\ "R" \in live /\ last.g \in {"A", "B"}) =>
       View("R") = last.pre["R"]

\* C7: the hyper-vertex mapping of A.intersection(B) holds exactly the names
\* that A and B both define with equal member sets, each with that member
\* set; its vertices and edges are those A and B have in common.
C7_IntersectionKeepsEqualHyper ==
  last.op = "intersection" =>
    LET a == last.pre[last.g]
        b == last.pre[last.other]
        r == View("R")
    IN  /\ DOMAIN r.hyper = {k \in DOMAIN a.hyper \cap DOMAIN b.hyper :
                               a.hyper[k] = b.hyper[k]}
        /\ \A k \in DOMAIN r.hyper : r.hyper[k] = a.hyper[k] /\ r.hyper[k] = b.hyper[k]
        /\ r.vertices = a.vertices \cap b.vertices
        /\ r.edges = a.edges \cap b.edges

\* an intersection that dropped a name defined differently on the two sides
C7_Witness ==
  /\ last.op = "intersection"
  /\ \E k \in DOMAIN last.pre["A"].hyper \cap DOMAIN last.pre["B"].hyper :
       /\ last.pre["A"].hyper[k] # last.pre["B"].hyper[k]
       /\ k \notin DOMAIN hag["R"].hyper
  /\ edges("A") # {}

OperandsSound ==
  /\ NoDanglingEdge(last.pre[last.g].vertices, last.pre[last.g].edges)
  /\ NoDanglingEdge(last.pre[last.other].vertices, last.pre[last.other].edges)

====
